---- MODULE Spec2Model ----
(***************************************************************************)
(* Order service of the e-commerce backend (services/orderSerivce.js):     *)
(* createCashOrder, checkoutSession, updateOrderToPaid and                 *)
(* updateOrderToDelivered, run as concurrent requests against the Cart,    *)
(* Product and Order collections.  Every await of a handler is one step,   *)
(* so that requests interleave exactly where the event loop lets them.     *)
(***************************************************************************)
EXTENDS Integers, Sequences, FiniteSets, TLC

\* ---------------------------------------------------------------- bounds
MaxReqs == 2
MaxClock == 2
\* requests sent to the role-gated routes (SpecAuth)
MaxGated == 1
\* entries of a user's address list
MaxAddresses == 2

\* ------------------------------------------------------------ vocabulary
Reqs == 1..MaxReqs
Users == {"u1", "u2"}
\* the authenticated user of the modelled requests; carts of both users exist
Requesters == {"u1"}
ProductIds == {"productA", "productB"}
\* c0 is a well-formed identifier that resolves to no cart
CartIds == {"c0", "c1", "c2", "c3"}
\* null (no document) and undefined (absent field); a stored number n is <<n>>
Null == [null |-> TRUE]
Undefined == << >>
Num(n) == <<n>>
Val(v) == v[1]

\* cartSchema.cartItems element (color carries no behaviour here)
Line(p, q, pr) == [product |-> p, quantity |-> q, price |-> pr]

\* total before discount, as the cart service keeps it: sum of price * quantity
RECURSIVE CalcTotalCartPrice(_)
CalcTotalCartPrice(items) ==
  IF items = <<>> THEN 0
  ELSE Head(items).price * Head(items).quantity + CalcTotalCartPrice(Tail(items))

Cart(items, afterDiscount, owner) ==
  [cartItems |-> items,
   totalCartPrice |-> CalcTotalCartPrice(items),
   totalPriceAfterDiscount |-> afterDiscount,
   user |-> owner]

\* The carts in the database when the requests arrive: the two-line cart of
\* two products without a coupon, a cart with two lines of one product and a
\* 100% coupon applied (discounted total 0), a cart with a 50% coupon.
InitCarts ==
  [c \in CartIds |->
     CASE c = "c1" -> Cart(<<Line("productA", 2, 10), Line("productB", 1, 5)>>, Undefined, "u1")
       [] c = "c2" -> Cart(<<Line("productA", 1, 10), Line("productA", 1, 10)>>, Num(0), "u2")
       [] c = "c3" -> Cart(<<Line("productB", 2, 5)>>, Num(5), "u1")
       [] OTHER -> Null]

\* Of the two paths the checkout updates, productSchema declares quantity
\* (required Number) and does not declare sold
ProductSchemaPaths == {"quantity"}

\* The products as stored: every write goes through the schema, so no stored
\* product has a sold field
InitProducts ==
  [p \in ProductIds |->
     IF p = "productA" THEN [quantity |-> Num(3), sold |-> Undefined]
     ELSE [quantity |-> Num(2), sold |-> Undefined]]

\* req.body.shippingAddress of the modelled requests
ShippingAddress == [details |-> "12 Nile St", city |-> "Cairo"]

\* orderSchema with its defaults; timestamps: true
OrderDoc(u, items, address, total, method, paid, paidTime, now) ==
  [user |-> u,
   cartItems |-> items,
   shippingAddress |-> address,
   taxPrice |-> 0,
   shippingPrice |-> 0,
   totalOrderPrice |-> total,
   paymentMethodType |-> method,
   isPaid |-> paid,
   paidAt |-> paidTime,
   isDelivered |-> FALSE,
   deliveredAt |-> Undefined,
   updatedAt |-> now]

\* one earlier cash order, still pending
InitOrders ==
  << OrderDoc("u1", <<Line("productB", 1, 5)>>, ShippingAddress, 5, "cash", FALSE, Undefined, 0) >>

\* orderSchema.virtual('status')
OrderStatus(o) ==
  IF o.isDelivered THEN "Delivered"
  ELSE IF o.isPaid THEN "Paid"
  ELSE "Pending"

\* a checkout session as the payment provider holds and reports it
Session(cartId, email, amount) ==
  [client_reference_id |-> cartId, customer_email |-> email, amount_total |-> amount,
   metadata |-> ShippingAddress]

\* checkout sessions opened earlier and not paid: one for cart c1, and one for
\* the cart of the earlier cash order, which that order deleted (c0)
InitSessions == {Session("c1", "u1", 2500), Session("c0", "u1", 500)}

\* the resources of the hand-written resource services
Resources == {"category", "product", "subCategory", "brand", "review", "user"}

\* a document of one of these collections
Document(resource, id, name) == [_id |-> id, resource |-> resource, name |-> name]

\* an entry of user.addresses
Address(id, city) == [_id |-> id, city |-> city]

\* a user document: the fields of every document and the address list
UserDocument(id, name, addresses) ==
  [_id |-> id, resource |-> "user", name |-> name, addresses |-> addresses]

\* each collection holds one document, with identifier 1 (the user with one
\* address); the other identifiers are well-formed and resolve to nothing
\* until a create uses them
InitCollections ==
  [res \in Resources |->
     [id \in 1..(MaxReqs + 1) |->
        IF id # 1 THEN Null
        ELSE IF res = "user" THEN UserDocument(1, "a", << Address(1, "Cairo") >>)
        ELSE Document(res, 1, "a")]]

\* collections: the documents of the resource services, by resource and id;
\* carts, products, orders: the collections; reqs: the handlers' positions and
\* local variables; sessions: the checkout sessions the payment provider
\* holds; server: the HTTP server and process; clock: Date.now()
VARIABLES carts, products, orders, reqs, sessions, server, clock, collections

vars == <<carts, products, orders, reqs, sessions, server, clock, collections>>

\* a request slot before its handler runs
IdleReq ==
  [kind |-> "none", pc |-> "idle", cartId |-> "none", id |-> 0, user |-> "none",
   cart |-> Null, totalOrderPrice |-> 0, order |-> 0, doc |-> Null, orig |-> Null,
   i |-> 0, now |-> 0, session |-> Null, signed |-> FALSE, status |-> 0,
   message |-> Null, resource |-> "none", input |-> Null]


Init ==
  /\ carts = InitCarts
  /\ products = InitProducts
  /\ orders = InitOrders
  /\ reqs = [r \in Reqs |-> IdleReq]
  /\ sessions = InitSessions
  /\ server = "up"
  /\ clock = 0
  /\ collections = InitCollections

\* the process runs until process.exit
Alive == server # "exited"

\* requests are served in arrival order of their slots, while the server listens
CanStart(r) ==
  /\ server = "up"
  /\ reqs[r].pc = "idle"
  /\ \A q \in Reqs : q < r => reqs[q].pc # "idle"

\* the handler of a route is entered by a request that arrives at it, or by
\* one that the route's middleware has let through
Enters(r, route) ==
  \/ CanStart(r)
  \/ Alive /\ reqs[r].pc = "authorized" /\ reqs[r].kind = route

\* Date.now(): never decreases
Now(t) == t \in clock..(IF clock < MaxClock THEN clock + 1 ELSE clock)

\* (variant: findOne without a filter, the first order when there is one)
OrderFindById_First(id) ==
  IF id \in 1..Len(orders) THEN orders[id]
  ELSE IF orders # << >> THEN orders[1] ELSE Null

\* Model.findById
CartFindById(id) == carts[id]
OrderFindById(id) == IF id \in 1..Len(orders) THEN orders[id] ELSE Null

\* JavaScript truthiness of a Number-or-undefined field
Truthy(v) == v # Undefined /\ Val(v) # 0

\* cart.totalPriceAfterDiscount ? cart.totalPriceAfterDiscount : cart.totalCartPrice
CartPrice(cart) ==
  IF Truthy(cart.totalPriceAfterDiscount) THEN Val(cart.totalPriceAfterDiscount)
  ELSE cart.totalCartPrice

\* (variant: the error is passed on without its status code)
NotFound_NoStatus(req) == [req EXCEPT !.pc = "done", !.status = 500]

\* next(new ApiError(..., 404))
NotFound(req) == [req EXCEPT !.pc = "done", !.status = 404]

SetReq(r, rec) == reqs' = [reqs EXCEPT ![r] = rec]

\* ------------------------------------------------------------------------
\* createCashOrder  (POST /api/v1/orders/:cartId)
\* ------------------------------------------------------------------------

\* Cart.findById, the 404 early return, the price computation and the call of
\* Order.create (the document is built here, it is inserted by the next step)
\* (variant: the order goes to the cart's owner)
OrderUser_CartOwner(user, cart) == cart.user

\* user: req.user._id, whoever owns the cart
OrderUser(user, cart) == user

createCashOrder_findCart(r, cartId, user) ==
  /\ Enters(r, "cash")
  /\ LET cart == CartFindById(cartId)
         req == [reqs[r] EXCEPT !.kind = "cash", !.cartId = cartId, !.user = user]
     IN IF cart = Null
        THEN /\ SetReq(r, NotFound(req))
             /\ UNCHANGED clock
        ELSE \E t \in 0..MaxClock :
               /\ Now(t)
               /\ clock' = t
               /\ SetReq(r, [req EXCEPT
                    !.pc = "createOrder",
                    !.cart = cart,
                    !.totalOrderPrice = CartPrice(cart) + 0 + 0,
                    !.doc = OrderDoc(OrderUser(user, cart), cart.cartItems, ShippingAddress,
                                     CartPrice(cart) + 0 + 0, "cash", FALSE, Undefined, t)])
  /\ UNCHANGED <<carts, products, orders, sessions, server, collections>>

\* Order.create resolves: the order is in the collection
createCashOrder_create(r) ==
  /\ Alive
  /\ reqs[r].kind = "cash"
  /\ reqs[r].pc = "createOrder"
  /\ orders' = Append(orders, reqs[r].doc)
  /\ SetReq(r, [reqs[r] EXCEPT !.pc = "bulkWrite", !.order = Len(orders) + 1])
  /\ UNCHANGED <<carts, products, sessions, server, clock, collections>>

\* Model.bulkWrite casts every update against the schema; with the schema's
\* default strict mode a path the schema does not declare is removed from it
CastUpdate(inc) == [f \in DOMAIN inc \cap ProductSchemaPaths |-> inc[f]]

\* $inc on one field: an absent field is set to the amount
Inc(v, n) == IF v = Undefined THEN Num(n) ELSE Num(Val(v) + n)

\* (variant: one unit per line, whatever the line's quantity)
IncStock_ByOne(prod, item) ==
  LET inc == CastUpdate([quantity |-> 0 - 1, sold |-> 1])
  IN [f \in DOMAIN prod |-> IF f \in DOMAIN inc THEN Inc(prod[f], inc[f]) ELSE prod[f]]

\* (variant: read-modify-write, the new value computed from the product as it
\* was when the requests arrived and written back whole)
IncStock_FromStaleRead(prod, item) ==
  LET inc == CastUpdate([quantity |-> 0 - item.quantity, sold |-> item.quantity])
  IN [f \in DOMAIN prod |->
        IF f \in DOMAIN inc THEN Inc(InitProducts[item.product][f], inc[f]) ELSE prod[f]]

\* update: { $inc: { quantity: -item.quantity, sold: +item.quantity } }
IncStock(prod, item) ==
  LET inc == CastUpdate([quantity |-> 0 - item.quantity, sold |-> item.quantity])
  IN [f \in DOMAIN prod |-> IF f \in DOMAIN inc THEN Inc(prod[f], inc[f]) ELSE prod[f]]

\* Product.bulkWrite: the server applies the updateOne operations in order,
\* each one atomically on its document, other writes may come in between;
\* after the last one the call resolves
bulkWrite_updateOne(r) ==
  /\ Alive
  /\ reqs[r].pc = "bulkWrite"
  /\ reqs[r].i < Len(reqs[r].cart.cartItems)
  /\ LET item == reqs[r].cart.cartItems[reqs[r].i + 1]
     IN products' = [products EXCEPT ![item.product] = IncStock(@, item)]
  /\ SetReq(r, [reqs[r] EXCEPT
       !.i = @ + 1,
       !.pc = IF reqs[r].i + 1 = Len(reqs[r].cart.cartItems) THEN "deleteCart" ELSE "bulkWrite"])
  /\ UNCHANGED <<carts, orders, sessions, server, clock, collections>>

\* (variant: the cart is looked up and left in place)
CartFindByIdAndDelete_Keep(id) == carts

\* Cart.findByIdAndDelete
CartFindByIdAndDelete(id) == [carts EXCEPT ![id] = Null]

\* Cart.findByIdAndDelete resolves, then res.status(201)
createCashOrder_deleteCart(r) ==
  /\ Alive
  /\ reqs[r].kind = "cash"
  /\ reqs[r].pc = "deleteCart"
  /\ carts' = CartFindByIdAndDelete(reqs[r].cartId)
  /\ SetReq(r, [reqs[r] EXCEPT !.pc = "done", !.status = 201])
  /\ UNCHANGED <<products, orders, sessions, server, clock, collections>>

\* ------------------------------------------------------------------------
\* checkoutSession  (GET /api/v1/orders/checkout-session/:cartId)
\* ------------------------------------------------------------------------

\* Cart.findById, the 404 early return, the price computation
checkoutSession_findCart(r, cartId, user) ==
  /\ Enters(r, "session")
  /\ LET cart == CartFindById(cartId)
         req == [reqs[r] EXCEPT !.kind = "session", !.cartId = cartId, !.user = user]
     IN IF cart = Null
        THEN SetReq(r, NotFound(req))
        ELSE SetReq(r, [req EXCEPT
               !.pc = "stripe",
               !.cart = cart,
               !.totalOrderPrice = CartPrice(cart) + 0 + 0])
  /\ UNCHANGED <<carts, products, orders, sessions, server, clock, collections>>

\* stripe.checkout.sessions.create resolves, then res.status(200)
checkoutSession_create(r) ==
  /\ Alive
  /\ reqs[r].kind = "session"
  /\ reqs[r].pc = "stripe"
  /\ LET session == Session(reqs[r].cartId, reqs[r].user, reqs[r].totalOrderPrice * 100)
     IN /\ sessions' = sessions \cup {session}
        /\ SetReq(r, [reqs[r] EXCEPT !.pc = "done", !.status = 200, !.session = session])
  /\ UNCHANGED <<carts, products, orders, server, clock, collections>>

\* ------------------------------------------------------------------------
\* updateOrderToPaid, updateOrderToDelivered  (PUT /api/v1/orders/:id/...)
\* ------------------------------------------------------------------------

\* (variant: the flag is toggled)
MarkPaid_Toggle(order, t) == [order EXCEPT !.isPaid = ~@, !.paidAt = Num(t)]

\* order.isPaid = true; order.paidAt = Date.now();
MarkPaid(order, t) == [order EXCEPT !.isPaid = TRUE, !.paidAt = Num(t)]

\* (variant: delivery marks the order paid as well)
MarkDelivered_AlsoPaid(order, t) ==
  [order EXCEPT !.isPaid = TRUE, !.isDelivered = TRUE, !.deliveredAt = Num(t)]

\* order.isDelivered = true; order.deliveredAt = Date.now();
MarkDelivered(order, t) == [order EXCEPT !.isDelivered = TRUE, !.deliveredAt = Num(t)]

\* (variant: the whole document as read replaces the stored one)
Save_WholeDocument(stored, orig, doc, t) == [doc EXCEPT !.updatedAt = t]

\* document.save(): the modified paths are $set on the stored document and
\* updatedAt is stamped; a document without a modified path is not written
Save(stored, orig, doc, t) ==
  IF doc = orig THEN stored
  ELSE [f \in DOMAIN stored |->
          IF f = "updatedAt" THEN t
          ELSE IF doc[f] # orig[f] THEN doc[f]
          ELSE stored[f]]

\* Order.findById, the 404 early return, the assignments and the call of save
updateOrderToPaid_find(r, id) ==
  /\ Enters(r, "pay")
  /\ LET order == OrderFindById(id)
         req == [reqs[r] EXCEPT !.kind = "pay", !.id = id]
     IN IF order = Null
        THEN /\ SetReq(r, NotFound(req))
             /\ UNCHANGED clock
        ELSE \E t \in 0..MaxClock :
               /\ Now(t)
               /\ clock' = t
               /\ SetReq(r, [req EXCEPT
                    !.pc = "save", !.orig = order, !.doc = MarkPaid(order, t), !.now = t])
  /\ UNCHANGED <<carts, products, orders, sessions, server, collections>>

updateOrderToDelivered_find(r, id) ==
  /\ Enters(r, "deliver")
  /\ LET order == OrderFindById(id)
         req == [reqs[r] EXCEPT !.kind = "deliver", !.id = id]
     IN IF order = Null
        THEN /\ SetReq(r, NotFound(req))
             /\ UNCHANGED clock
        ELSE \E t \in 0..MaxClock :
               /\ Now(t)
               /\ clock' = t
               /\ SetReq(r, [req EXCEPT
                    !.pc = "save", !.orig = order, !.doc = MarkDelivered(order, t), !.now = t])
  /\ UNCHANGED <<carts, products, orders, sessions, server, collections>>

\* order.save() resolves, then res.status(200)
order_save(r) ==
  /\ Alive
  /\ reqs[r].kind \in {"pay", "deliver"}
  /\ reqs[r].pc = "save"
  /\ orders' = [orders EXCEPT
       ![reqs[r].id] = Save(@, reqs[r].orig, reqs[r].doc, reqs[r].now)]
  /\ SetReq(r, [reqs[r] EXCEPT !.pc = "done", !.status = 200])
  /\ UNCHANGED <<carts, products, sessions, server, clock, collections>>

\* ------------------------------------------------------------------------
\* webhookCheckout  (POST /webhook-checkout)  and  createCardOrder
\* ------------------------------------------------------------------------

EventTypes == {"checkout.session.completed", "charge.succeeded"}

\* the payload of an event the payment provider did not sign: whatever the
\* sender wrote, here a session for cart c1 at amount 0
ForgedSession == Session("c1", "u1", 0)

\* (variant: every e-mail resolves to an account)
UserFindOne_AnyEmail(email) == [_id |-> email]

\* User.findOne({ email })
UserFindOne(email) == IF email \in Users THEN [_id |-> email] ELSE Null

\* (variant: the payload is parsed without verifying the signature)
ConstructEvent_Unverified(sigOK, type, session) ==
  [type |-> type, object |-> session]

\* stripe.webhooks.constructEvent(req.body, sig, secret): the event, or a
\* throw (Null here) when the signature does not verify
ConstructEvent(sigOK, type, session) ==
  IF sigOK THEN [type |-> type, object |-> session] ELSE Null

\* stripe.webhooks.constructEvent, the 400 on a signature that does not
\* verify, the call of createCardOrder (not awaited: it runs up to its first
\* await, Cart.findById) and res.status(200)
webhookCheckout(r, sigOK, type, session) ==
  /\ CanStart(r)
  /\ sigOK <=> session \in sessions
  /\ LET req == [IdleReq EXCEPT !.kind = "webhook", !.signed = sigOK]
         event == ConstructEvent(sigOK, type, session)
     IN IF event = Null
        THEN SetReq(r, [req EXCEPT !.pc = "done", !.status = 400])
        ELSE IF event.type = "checkout.session.completed"
        THEN SetReq(r, [req EXCEPT !.pc = "cardFindCart", !.status = 200,
                                   !.session = session,
                                   !.cartId = session.client_reference_id,
                                   !.totalOrderPrice = session.amount_total \div 100])
        ELSE SetReq(r, [req EXCEPT !.pc = "done", !.status = 200])
  /\ UNCHANGED <<carts, products, orders, sessions, server, clock, collections>>

\* Cart.findById resolves (with the cart or with null)
createCardOrder_findCart(r) ==
  /\ Alive
  /\ reqs[r].pc = "cardFindCart"
  /\ SetReq(r, [reqs[r] EXCEPT !.pc = "cardFindUser", !.cart = CartFindById(reqs[r].cartId)])
  /\ UNCHANGED <<carts, products, orders, sessions, server, clock, collections>>

\* User.findOne resolves; building the order reads user._id and
\* cart.cartItems, a TypeError when either is null: the promise nobody awaits
\* rejects and the unhandledRejection handler calls server.close
createCardOrder_findUser(r) ==
  /\ Alive
  /\ reqs[r].pc = "cardFindUser"
  /\ LET user == UserFindOne(reqs[r].session.customer_email)
         cart == reqs[r].cart
     IN IF user = Null \/ cart = Null
        THEN /\ SetReq(r, [reqs[r] EXCEPT !.pc = "rejected"])
             /\ server' = "closing"
             /\ UNCHANGED clock
        ELSE /\ \E t \in 0..MaxClock :
                  /\ Now(t)
                  /\ clock' = t
                  /\ SetReq(r, [reqs[r] EXCEPT
                       !.pc = "createOrder",
                       !.user = user._id,
                       !.doc = OrderDoc(user._id, cart.cartItems, reqs[r].session.metadata,
                                        reqs[r].totalOrderPrice,
                                        "card", TRUE, Num(t), t)])
             /\ UNCHANGED server
  /\ UNCHANGED <<carts, products, orders, sessions, collections>>

\* Order.create resolves
createCardOrder_create(r) ==
  /\ Alive
  /\ reqs[r].kind = "webhook"
  /\ reqs[r].pc = "createOrder"
  /\ orders' = Append(orders, reqs[r].doc)
  /\ SetReq(r, [reqs[r] EXCEPT !.pc = "bulkWrite", !.order = Len(orders) + 1])
  /\ UNCHANGED <<carts, products, sessions, server, clock, collections>>

\* (variant: the card path leaves the cart in place)
createCardOrder_deleteCart_Keep(r) ==
  /\ Alive
  /\ reqs[r].kind = "webhook"
  /\ reqs[r].pc = "deleteCart"
  /\ SetReq(r, [reqs[r] EXCEPT !.pc = "done"])
  /\ UNCHANGED <<carts, products, orders, sessions, server, clock, collections>>

\* Cart.findByIdAndDelete resolves; nothing is answered, the 200 went out before
createCardOrder_deleteCart(r) ==
  /\ Alive
  /\ reqs[r].kind = "webhook"
  /\ reqs[r].pc = "deleteCart"
  /\ carts' = CartFindByIdAndDelete(reqs[r].cartId)
  /\ SetReq(r, [reqs[r] EXCEPT !.pc = "done"])
  /\ UNCHANGED <<products, orders, sessions, server, clock, collections>>

\* a request whose connection is still open: it has not been answered
Connected(r) == reqs[r].pc \notin {"idle", "done", "rejected"} /\ reqs[r].status = 0

\* server.close calls back once no connection is left: process.exit(1)
process_exit ==
  /\ server = "closing"
  /\ \A r \in Reqs : ~Connected(r)
  /\ server' = "exited"
  /\ UNCHANGED <<carts, products, orders, reqs, sessions, clock, collections>>

\* ------------------------------------------------------------------------

Next ==
  \/ \E r \in Reqs, c \in CartIds, u \in Requesters : createCashOrder_findCart(r, c, u)
  \/ \E r \in Reqs : createCashOrder_create(r)
  \/ \E r \in Reqs : bulkWrite_updateOne(r)
  \/ \E r \in Reqs : createCashOrder_deleteCart(r)
  \/ \E r \in Reqs, c \in CartIds, u \in Requesters : checkoutSession_findCart(r, c, u)
  \/ \E r \in Reqs : checkoutSession_create(r)
  \/ \E r \in Reqs, id \in 0..Len(orders) : updateOrderToPaid_find(r, id)
  \/ \E r \in Reqs, id \in 0..Len(orders) : updateOrderToDelivered_find(r, id)
  \/ \E r \in Reqs : order_save(r)
  \/ \E r \in Reqs, sigOK \in BOOLEAN, type \in EventTypes,
         session \in sessions \cup {ForgedSession} :
       webhookCheckout(r, sigOK, type, session)
  \/ \E r \in Reqs : createCardOrder_findCart(r)
  \/ \E r \in Reqs : createCardOrder_findUser(r)
  \/ \E r \in Reqs : createCardOrder_create(r)
  \/ \E r \in Reqs : createCardOrder_deleteCart(r)
  \/ process_exit

Spec == Init /\ [][Next]_vars

\* ------------------------------------------------------------------------
\* Checkout with a database call that rejects after Order.create resolved
\* ------------------------------------------------------------------------

\* the catch-all responder app.use(globalError): 500
globalError(req) == [req EXCEPT !.status = 500]

\* the promise of the handler rejects.  createCashOrder runs under
\* asyncHandler, which passes the error to next() and so to globalError;
\* createCardOrder was called without await and without catch, its rejection
\* goes to the unhandledRejection handler, which calls server.close
Rejects(r) ==
  IF reqs[r].kind = "cash"
  THEN /\ SetReq(r, globalError([reqs[r] EXCEPT !.pc = "rejected"]))
       /\ UNCHANGED server
  ELSE /\ SetReq(r, [reqs[r] EXCEPT !.pc = "rejected"])
       /\ server' = "closing"

\* Product.bulkWrite rejects at its next operation: the operations before it
\* stay applied (ordered bulk write), the rest is not attempted
bulkWrite_rejects(r) ==
  /\ Alive
  /\ reqs[r].pc = "bulkWrite"
  /\ Rejects(r)
  /\ UNCHANGED <<carts, products, orders, sessions, clock, collections>>

\* Cart.findByIdAndDelete rejects
deleteCart_rejects(r) ==
  /\ Alive
  /\ reqs[r].pc = "deleteCart"
  /\ Rejects(r)
  /\ UNCHANGED <<carts, products, orders, sessions, clock, collections>>

NextFail ==
  \/ \E r \in Reqs, c \in CartIds, u \in Requesters : createCashOrder_findCart(r, c, u)
  \/ \E r \in Reqs : createCashOrder_create(r)
  \/ \E r \in Reqs : bulkWrite_updateOne(r)
  \/ \E r \in Reqs : bulkWrite_rejects(r)
  \/ \E r \in Reqs : createCashOrder_deleteCart(r)
  \/ \E r \in Reqs : deleteCart_rejects(r)
  \/ \E r \in Reqs, sigOK \in BOOLEAN, type \in EventTypes,
         session \in sessions \cup {ForgedSession} :
       webhookCheckout(r, sigOK, type, session)
  \/ \E r \in Reqs : createCardOrder_findCart(r)
  \/ \E r \in Reqs : createCardOrder_findUser(r)
  \/ \E r \in Reqs : createCardOrder_create(r)
  \/ \E r \in Reqs : createCardOrder_deleteCart(r)
  \/ process_exit

SpecFail == Init /\ [][NextFail]_vars

\* ------------------------------------------------------------------------
\* The role-gated routes: authService.protect and authService.allowedTo in
\* front of the handlers
\* ------------------------------------------------------------------------

\* a request without a valid bearer token
Anonymous == "anonymous"

\* the accounts that send requests, and the role stored with each
RoleOf == [u1 |-> "user", u2 |-> "user", m1 |-> "manager", a1 |-> "admin"]

Principals == DOMAIN RoleOf \cup {Anonymous}

\* the allowedTo(...) argument of each route
RouteRoles ==
  [pay           |-> {"admin", "manager"},
   deliver       |-> {"admin", "manager"},
   session       |-> {"user"},
   cash          |-> {"user"},
   productCreate |-> {"admin", "manager"},
   productUpdate |-> {"admin", "manager"},
   productDelete |-> {"admin"},
   listOrders    |-> {"user", "admin", "manager"},
   getOrder      |-> {"user", "admin", "manager"}]

\* authService.protect: 401 without a valid token, else next()
protect(who) == IF who = Anonymous THEN 401 ELSE 0

\* (variant: any authenticated account passes)
allowedTo_AnyRole(roles, who) == 0

\* authService.allowedTo(...roles): 403 when the account's role is not one of
\* roles, else next()
allowedTo(roles, who) == IF RoleOf[who] \in roles THEN 0 ELSE 403

\* the middleware in front of a handler: protect, then allowedTo
protect_allowedTo(r, route, who) ==
  /\ CanStart(r)
  /\ r <= MaxGated
  /\ LET req == [IdleReq EXCEPT !.kind = route, !.user = who]
         denied == IF protect(who) # 0 THEN protect(who)
                   ELSE allowedTo(RouteRoles[route], who)
     IN IF denied # 0
        THEN SetReq(r, [req EXCEPT !.pc = "done", !.status = denied])
        ELSE SetReq(r, [req EXCEPT !.pc = "authorized"])
  /\ UNCHANGED <<carts, products, orders, sessions, server, clock, collections>>

\* the identifier a created product gets
NewProductIds == {"productC"}

\* the body of a product create or update request
ProductBody == [quantity |-> Num(5), sold |-> Undefined]

\* createProduct = factory.createOne(Product): Product.create(req.body), 201
createProduct(r, p) ==
  /\ Alive
  /\ reqs[r].pc = "authorized" /\ reqs[r].kind = "productCreate"
  /\ p \notin DOMAIN products
  /\ products' = [q \in DOMAIN products \cup {p} |-> IF q = p THEN ProductBody ELSE products[q]]
  /\ SetReq(r, [reqs[r] EXCEPT !.pc = "done", !.status = 201])
  /\ UNCHANGED <<carts, orders, sessions, server, clock, collections>>

\* updateProduct = factory.updateOne(Product): findByIdAndUpdate(id, req.body),
\* 404 when no document has the id, else 200
updateProduct(r, p) ==
  /\ Alive
  /\ reqs[r].pc = "authorized" /\ reqs[r].kind = "productUpdate"
  /\ IF products[p] = Null
     THEN SetReq(r, NotFound(reqs[r])) /\ UNCHANGED products
     ELSE /\ products' = [products EXCEPT ![p] = [@ EXCEPT !.quantity = ProductBody.quantity]]
          /\ SetReq(r, [reqs[r] EXCEPT !.pc = "done", !.status = 200])
  /\ UNCHANGED <<carts, orders, sessions, server, clock, collections>>

\* deleteProduct = factory.deleteOne(Product): findByIdAndDelete(id),
\* 404 when no document has the id, else 204
deleteProduct(r, p) ==
  /\ Alive
  /\ reqs[r].pc = "authorized" /\ reqs[r].kind = "productDelete"
  /\ IF products[p] = Null
     THEN SetReq(r, NotFound(reqs[r])) /\ UNCHANGED products
     ELSE /\ products' = [products EXCEPT ![p] = Null]
          /\ SetReq(r, [reqs[r] EXCEPT !.pc = "done", !.status = 204])
  /\ UNCHANGED <<carts, orders, sessions, server, clock, collections>>

\* a request that the middleware has let through
Authorized(r) == reqs[r].pc = "authorized"

\* Order.find(filter)
OrderFind(filter) ==
  IF filter = Null THEN orders
  ELSE SelectSeq(orders, LAMBDA o : o.user = filter.user)

\* (variant: no filter object is set for any role)
filterOrderForLoggedUser_NoFilter(who) == Null

\* filterOrderForLoggedUser: req.filterObj = { user: req.user._id } for role user
filterOrderForLoggedUser(who) ==
  IF RoleOf[who] = "user" THEN [user |-> who] ELSE Null

\* GET /api/v1/orders: filterOrderForLoggedUser, then findAllOrders =
\* factory.getAll(Order), which finds with req.filterObj and answers 200
findAllOrders(r) ==
  /\ Alive
  /\ Authorized(r) /\ reqs[r].kind = "listOrders"
  /\ SetReq(r, [reqs[r] EXCEPT
       !.pc = "done", !.status = 200,
       !.doc = [documents |-> OrderFind(filterOrderForLoggedUser(reqs[r].user))]])
  /\ UNCHANGED <<carts, products, orders, sessions, server, clock, collections>>

\* GET /api/v1/orders/:id: findSpecificOrder = factory.getOne(Order), which
\* finds by id, answers 404 when there is no document and 200 with it otherwise
findSpecificOrder(r, id) ==
  /\ Alive
  /\ Authorized(r) /\ reqs[r].kind = "getOrder"
  /\ LET order == OrderFindById(id)
         req == [reqs[r] EXCEPT !.id = id]
     IN IF order = Null
        THEN SetReq(r, NotFound(req))
        ELSE SetReq(r, [req EXCEPT !.pc = "done", !.status = 200, !.doc = order])
  /\ UNCHANGED <<carts, products, orders, sessions, server, clock, collections>>

NextAuth ==
  \/ \E r \in Reqs, route \in DOMAIN RouteRoles, who \in Principals :
       protect_allowedTo(r, route, who)
  \/ \E r \in Reqs, c \in CartIds :
       Authorized(r) /\ createCashOrder_findCart(r, c, reqs[r].user)
  \/ \E r \in Reqs : createCashOrder_create(r)
  \/ \E r \in Reqs : bulkWrite_updateOne(r)
  \/ \E r \in Reqs : createCashOrder_deleteCart(r)
  \/ \E r \in Reqs, c \in CartIds :
       Authorized(r) /\ checkoutSession_findCart(r, c, reqs[r].user)
  \/ \E r \in Reqs : checkoutSession_create(r)
  \/ \E r \in Reqs, id \in 0..Len(orders) : Authorized(r) /\ updateOrderToPaid_find(r, id)
  \/ \E r \in Reqs, id \in 0..Len(orders) : Authorized(r) /\ updateOrderToDelivered_find(r, id)
  \/ \E r \in Reqs : order_save(r)
  \/ \E r \in Reqs, p \in NewProductIds : createProduct(r, p)
  \/ \E r \in Reqs, p \in DOMAIN products : updateProduct(r, p)
  \/ \E r \in Reqs, p \in DOMAIN products : deleteProduct(r, p)
  \/ \E r \in Reqs : findAllOrders(r)
  \/ \E r \in Reqs, id \in 0..Len(orders) : findSpecificOrder(r, id)

SpecAuth == Init /\ [][NextAuth]_vars

\* ------------------------------------------------------------------------
\* The payment provider's events alone, delivered and redelivered
\* ------------------------------------------------------------------------

\* a paid session of a customer whose account is gone
OrphanSession == Session("c3", "u0", 500)

InitWebhook ==
  /\ carts = InitCarts
  /\ products = InitProducts
  /\ orders = InitOrders
  /\ reqs = [r \in Reqs |-> IdleReq]
  /\ sessions = InitSessions \cup {OrphanSession}
  /\ server = "up"
  /\ clock = 0
  /\ collections = InitCollections

NextWebhook ==
  \/ \E r \in Reqs, sigOK \in BOOLEAN, type \in EventTypes,
         session \in sessions \cup {ForgedSession} :
       webhookCheckout(r, sigOK, type, session)
  \/ \E r \in Reqs : createCardOrder_findCart(r)
  \/ \E r \in Reqs : createCardOrder_findUser(r)
  \/ \E r \in Reqs : createCardOrder_create(r)
  \/ \E r \in Reqs : bulkWrite_updateOne(r)
  \/ \E r \in Reqs : createCardOrder_deleteCart(r)
  \/ process_exit

\* every database call of createCardOrder resolves in the end and the close
\* callback runs once no connection is left; events arrive when they arrive
FairWebhook ==
  /\ InitWebhook
  /\ [][NextWebhook]_vars
  /\ \A r \in Reqs :
       /\ WF_vars(createCardOrder_findCart(r))
       /\ WF_vars(createCardOrder_findUser(r))
       /\ WF_vars(createCardOrder_create(r))
       /\ WF_vars(bulkWrite_updateOne(r))
       /\ WF_vars(createCardOrder_deleteCart(r))
  /\ WF_vars(process_exit)

\* ------------------------------------------------------------------------
\* The cart item operations between checkoutSession and the webhook
\* ------------------------------------------------------------------------

\* the unit price the cart service copies from the product into a new line
ProductPrice == [productA |-> 10, productB |-> 5]

\* the cart after one of its item operations: the total is recomputed and the
\* discounted total is dropped until a coupon is applied again
EditedCart(cart, items) == Cart(items, Undefined, cart.user)

\* the cart items with the quantity of line k set to q
WithQuantity(items, k, q) == [items EXCEPT ![k].quantity = q]

\* the cart items without line k
WithoutItem(items, k) == [j \in 1..(Len(items) - 1) |-> IF j < k THEN items[j] ELSE items[j + 1]]

\* the cart items with one more unit of product p: on its line if there is
\* one, else on a new line
WithProduct(items, p) ==
  IF \E k \in 1..Len(items) : items[k].product = p
  THEN [k \in 1..Len(items) |->
          IF items[k].product = p THEN [items[k] EXCEPT !.quantity = @ + 1] ELSE items[k]]
  ELSE Append(items, Line(p, 1, ProductPrice[p]))

\* a cart item operation: the cart is read, changed and saved; 404 without cart
cartEdit(r, kind, cartId, items) ==
  /\ CanStart(r)
  /\ LET cart == CartFindById(cartId)
         req == [IdleReq EXCEPT !.kind = kind, !.cartId = cartId]
     IN IF cart = Null
        THEN SetReq(r, NotFound(req)) /\ UNCHANGED carts
        ELSE /\ carts' = [carts EXCEPT ![cartId] = EditedCart(cart, items)]
             /\ SetReq(r, [req EXCEPT !.pc = "done", !.status = 200])
  /\ UNCHANGED <<products, orders, sessions, server, clock, collections>>

\* PUT /api/v1/cart/:itemId
updateCartItemQuantity(r, cartId, k, q) ==
  /\ carts[cartId] # Null => k \in 1..Len(carts[cartId].cartItems)
  /\ cartEdit(r, "updateCartItemQuantity", cartId,
              IF carts[cartId] = Null THEN << >> ELSE WithQuantity(carts[cartId].cartItems, k, q))

\* DELETE /api/v1/cart/:itemId
removeSpecificCartItem(r, cartId, k) ==
  /\ carts[cartId] # Null => k \in 1..Len(carts[cartId].cartItems)
  /\ cartEdit(r, "removeSpecificCartItem", cartId,
              IF carts[cartId] = Null THEN << >> ELSE WithoutItem(carts[cartId].cartItems, k))

\* POST /api/v1/cart
addProductToCart(r, cartId, p) ==
  cartEdit(r, "addProductToCart", cartId,
           IF carts[cartId] = Null THEN << >> ELSE WithProduct(carts[cartId].cartItems, p))

\* the carts that are edited and paid by card
EditedCartIds == {"c1", "c3"}

NextCart ==
  \/ \E r \in Reqs, c \in EditedCartIds, u \in Requesters : checkoutSession_findCart(r, c, u)
  \/ \E r \in Reqs : checkoutSession_create(r)
  \/ \E r \in Reqs, c \in EditedCartIds, k \in 1..2, q \in {1, 3} :
       updateCartItemQuantity(r, c, k, q)
  \/ \E r \in Reqs, c \in EditedCartIds, k \in 1..2 : removeSpecificCartItem(r, c, k)
  \/ \E r \in Reqs, c \in EditedCartIds, p \in ProductIds : addProductToCart(r, c, p)
  \/ \E r \in Reqs, session \in sessions :
       webhookCheckout(r, TRUE, "checkout.session.completed", session)
  \/ \E r \in Reqs : createCardOrder_findCart(r)
  \/ \E r \in Reqs : createCardOrder_findUser(r)
  \/ \E r \in Reqs : createCardOrder_create(r)
  \/ \E r \in Reqs : bulkWrite_updateOne(r)
  \/ \E r \in Reqs : createCardOrder_deleteCart(r)
  \/ process_exit

SpecCart == Init /\ [][NextCart]_vars

\* ------------------------------------------------------------------------
\* Get-by-id of the resource services
\* ------------------------------------------------------------------------

\* the resources, and in each collection the identifiers that have a document
Stored ==
  [category |-> {1}, product |-> {1}, subCategory |-> {1}, brand |-> {1},
   review |-> {1}, user |-> {1}]

\* the well-formed identifiers a request can name
RequestIds == {1, 2}

\* Model.findById: the document, or null
FindById(resource, id) ==
  IF id \in Stored[resource] THEN [_id |-> id, resource |-> resource] ELSE Null

\* Review.find({ product }): an array, empty when no review matches
ReviewFind(productId) ==
  [documents |-> IF productId \in Stored.product
                 THEN << [_id |-> 1, resource |-> "review", product |-> productId] >>
                 ELSE << >>]

\* !document: false for every array, the empty one included
Not(document) == document = Null

\* next(new ApiError(`No document for this id ${id}`, 404)) where id is
\* const { id } = req.params
NoDocument(req, id) ==
  [NotFound(req) EXCEPT !.message = [text |-> "No document for this id", id |-> id]]

\* the same statement in a handler that declares no id: evaluating the
\* template throws a ReferenceError, asyncHandler passes it to next() and the
\* catch-all responder answers
NoDocument_IdNotDefined(req) ==
  globalError([req EXCEPT !.pc = "done",
                          !.message = [text |-> "id is not defined", id |-> 0]])

Found(req, document) == [req EXCEPT !.pc = "done", !.status = 200, !.doc = document]

getCategory(r, id) ==
  /\ CanStart(r)
  /\ LET req == [IdleReq EXCEPT !.kind = "category", !.id = id]
         document == FindById("category", id)
     IN IF Not(document)
        THEN SetReq(r, NoDocument_IdNotDefined(req))
        ELSE SetReq(r, Found(req, document))
  /\ UNCHANGED <<carts, products, orders, sessions, server, clock, collections>>

\* the handlers that read const { id } = req.params first
getDocument(r, resource, id) ==
  /\ CanStart(r)
  /\ LET req == [IdleReq EXCEPT !.kind = resource, !.id = id]
         document == FindById(resource, id)
     IN IF Not(document)
        THEN SetReq(r, NoDocument(req, id))
        ELSE SetReq(r, Found(req, document))
  /\ UNCHANGED <<carts, products, orders, sessions, server, clock, collections>>

getProduct(r, id) == getDocument(r, "product", id)

getSubCategory(r, id) == getDocument(r, "subCategory", id)

getBrand(r, id) == getDocument(r, "brand", id)

getUser(r, id) == getDocument(r, "user", id)

\* getReview finds by req.params.productId, not by id, and with find
getReview(r, id, productId) ==
  /\ CanStart(r)
  /\ LET req == [IdleReq EXCEPT !.kind = "review", !.id = id]
         document == ReviewFind(productId)
     IN IF Not(document)
        THEN SetReq(r, NoDocument_IdNotDefined(req))
        ELSE SetReq(r, Found(req, document))
  /\ UNCHANGED <<carts, products, orders, sessions, server, clock, collections>>

NextGet ==
  \/ \E r \in Reqs, id \in RequestIds : getCategory(r, id)
  \/ \E r \in Reqs, id \in RequestIds : getProduct(r, id)
  \/ \E r \in Reqs, id \in RequestIds : getSubCategory(r, id)
  \/ \E r \in Reqs, id \in RequestIds : getBrand(r, id)
  \/ \E r \in Reqs, id \in RequestIds : getUser(r, id)
  \/ \E r \in Reqs, id \in RequestIds, productId \in RequestIds : getReview(r, id, productId)

SpecGet == Init /\ [][NextGet]_vars

\* ------------------------------------------------------------------------
\* Update and delete of the resource services
\* ------------------------------------------------------------------------

\* the body of an update request
UpdateBody == [name |-> "b"]

\* (variant: the update is an upsert)
FindByIdAndUpdate_Upsert(resource, id, body) ==
  [collections EXCEPT ![resource][id] =
     IF @ = Null THEN Document(resource, id, body.name) ELSE [@ EXCEPT !.name = body.name]]

\* Model.findByIdAndUpdate(id, body, { new: true }): the collection after it;
\* without a document of that id nothing is written
FindByIdAndUpdate(resource, id, body) ==
  [collections EXCEPT ![resource][id] =
     IF @ = Null THEN Null ELSE [@ EXCEPT !.name = body.name]]

\* Model.findByIdAndDelete(id): the collection after it
FindByIdAndDelete(resource, id) == [collections EXCEPT ![resource][id] = Null]

\* updateCategory, updateProduct, updateSubCategory, updateBrand, updateReview,
\* updateUser: findByIdAndUpdate, 404 with req.params.id when it resolves to
\* null, else 200 with the updated document (updateProduct also calls
\* document.save() on it, with no modified path)
updateDocument(r, resource, id) ==
  /\ CanStart(r)
  /\ LET req == [IdleReq EXCEPT !.kind = "update", !.resource = resource, !.id = id]
         document == FindByIdAndUpdate(resource, id, UpdateBody)[resource][id]
     IN /\ collections' = FindByIdAndUpdate(resource, id, UpdateBody)
        /\ IF Not(document)
           THEN SetReq(r, NoDocument(req, id))
           ELSE SetReq(r, Found(req, document))
  /\ UNCHANGED <<carts, products, orders, sessions, server, clock>>

\* deleteCategory, deleteProduct, deleteSubCategory, deleteBrand, deleteReview,
\* deleteUser: findByIdAndDelete, 404 with id when it resolves to null, else
\* res.status(204).send()
deleteDocument(r, resource, id) ==
  /\ CanStart(r)
  /\ LET req == [IdleReq EXCEPT !.kind = "delete", !.resource = resource, !.id = id]
         document == collections[resource][id]
     IN /\ collections' = FindByIdAndDelete(resource, id)
        /\ IF Not(document)
           THEN SetReq(r, NoDocument(req, id))
           ELSE SetReq(r, [req EXCEPT !.pc = "done", !.status = 204])
  /\ UNCHANGED <<carts, products, orders, sessions, server, clock>>

NextCrud ==
  \/ \E r \in Reqs, resource \in Resources, id \in RequestIds : updateDocument(r, resource, id)
  \/ \E r \in Reqs, resource \in Resources, id \in RequestIds : deleteDocument(r, resource, id)

SpecCrud == Init /\ [][NextCrud]_vars

\* ------------------------------------------------------------------------
\* validatorMiddleware in front of a create handler
\* ------------------------------------------------------------------------

\* an entry of validationResult(req).array(); express-validator names the
\* field in path, its older versions in param (path is then undefined, here "")
ValidationError(path, param, msg) == [path |-> path, param |-> param, msg |-> msg]

ValidationErrors ==
  {ValidationError("name", "", "required"), ValidationError("name", "", "too short"),
   ValidationError("", "email", "required"), ValidationError("email", "", "invalid")}

\* the results of validating a request
ValidationResults ==
  {<< >>}
  \cup {<<a>> : a \in ValidationErrors}
  \cup {<<a, b>> : a, b \in ValidationErrors}
  \cup {<<a, b, ValidationError("name", "", "too short")>> : a, b \in ValidationErrors}

\* error.path || error.param
ErrorKey(error) == IF error.path # "" THEN error.path ELSE error.param

\* (variant: a field keeps only its last message)
FormatErrors_LastOnly(errors, n) ==
  [k \in {ErrorKey(errors[i]) : i \in 1..n} |->
     << errors[CHOOSE i \in 1..n : ErrorKey(errors[i]) = k
                 /\ \A j \in (i+1)..n : ErrorKey(errors[j]) # k].msg >>]

\* errors.array().forEach(...) over the first n errors: formattedErrors
RECURSIVE FormatErrors(_, _)
FormatErrors(errors, n) ==
  IF n = 0 THEN [k \in {} |-> << >>]
  ELSE LET formattedErrors == FormatErrors(errors, n - 1)
           key == ErrorKey(errors[n])
       IN [k \in DOMAIN formattedErrors \cup {key} |->
             IF k = key
             THEN Append(IF key \in DOMAIN formattedErrors
                         THEN formattedErrors[key] ELSE << >>, errors[n].msg)
             ELSE formattedErrors[k]]

\* validatorMiddleware: 400 with the formatted errors, or next()
validatorMiddleware(r, resource, errors) ==
  /\ CanStart(r)
  /\ LET req == [IdleReq EXCEPT !.kind = "create", !.resource = resource,
                                !.input = [errors |-> errors]]
     IN IF errors # << >>
        THEN SetReq(r, [req EXCEPT
               !.pc = "done", !.status = 400,
               !.message = [status |-> "fail", text |-> "Validation failed",
                            errors |-> FormatErrors(errors, Len(errors))]])
        ELSE SetReq(r, [req EXCEPT !.pc = "validated"])
  /\ UNCHANGED <<carts, products, orders, sessions, server, clock, collections>>

\* the identifier the next created document gets
NewId(resource) ==
  CHOOSE id \in DOMAIN collections[resource] :
    /\ collections[resource][id] = Null
    /\ \A k \in DOMAIN collections[resource] : collections[resource][k] = Null => id <= k

\* createCategory and the other create handlers: Model.create(req.body), 201
createDocument(r) ==
  /\ Alive
  /\ reqs[r].pc = "validated" /\ reqs[r].kind = "create"
  /\ LET resource == reqs[r].resource
         newDoc == Document(resource, NewId(resource), UpdateBody.name)
     IN /\ collections' = [collections EXCEPT ![resource][newDoc._id] = newDoc]
        /\ SetReq(r, [reqs[r] EXCEPT !.pc = "done", !.status = 201, !.doc = newDoc])
  /\ UNCHANGED <<carts, products, orders, sessions, server, clock>>

NextValid ==
  \/ \E r \in Reqs, resource \in {"category"}, errors \in ValidationResults :
       validatorMiddleware(r, resource, errors)
  \/ \E r \in Reqs : createDocument(r)

SpecValid == Init /\ [][NextValid]_vars

\* ------------------------------------------------------------------------
\* The address service  (/api/v1/addresses, the logged-in user's list)
\* ------------------------------------------------------------------------

\* the logged-in user: req.user._id
LoggedUsers == {1, 2}

\* two users are registered, the second one without an address yet
InitAddress ==
  /\ carts = InitCarts
  /\ products = InitProducts
  /\ orders = InitOrders
  /\ reqs = [r \in Reqs |-> IdleReq]
  /\ sessions = InitSessions
  /\ server = "up"
  /\ clock = 0
  /\ collections = [InitCollections EXCEPT !["user"][2] = UserDocument(2, "b", << >>)]

\* the address identifiers a request can name
AddressIds == 1..(MaxAddresses + 1)

\* the _id a pushed address subdocument gets
NewAddressId(addresses) ==
  CHOOSE id \in AddressIds :
    /\ \A k \in 1..Len(addresses) : addresses[k]._id # id
    /\ \A j \in 1..(id - 1) : \E k \in 1..Len(addresses) : addresses[k]._id = j

\* $addToSet: { addresses: req.body }: the subdocument gets an _id of its own
\* and so equals no stored one
AddToSet(addresses, body) == Append(addresses, Address(NewAddressId(addresses), body.city))

\* $pull: { addresses: { _id: addressId } }
Pull(addresses, addressId) == SelectSeq(addresses, LAMBDA a : a._id # addressId)

addAddress(r, me, city) ==
  /\ CanStart(r)
  /\ Len(collections["user"][me].addresses) < MaxAddresses
  /\ LET user == [collections["user"][me] EXCEPT !.addresses = AddToSet(@, [city |-> city])]
     IN /\ collections' = [collections EXCEPT !["user"][me] = user]
        /\ SetReq(r, [IdleReq EXCEPT
             !.kind = "addAddress", !.input = [user |-> me], !.pc = "done", !.status = 200,
             !.message = [text |-> "Address Added Successfully"],
             !.doc = [documents |-> user.addresses]])
  /\ UNCHANGED <<carts, products, orders, sessions, server, clock>>

\* findByIdAndUpdate with $pull and { new: true }, then res.status(200)
removeAddress(r, me, addressId) ==
  /\ CanStart(r)
  /\ LET user == [collections["user"][me] EXCEPT !.addresses = Pull(@, addressId)]
     IN /\ collections' = [collections EXCEPT !["user"][me] = user]
        /\ SetReq(r, [IdleReq EXCEPT
             !.kind = "removeAddress", !.input = [user |-> me], !.id = addressId, !.pc = "done", !.status = 200,
             !.message = [text |-> "Address removed successfully"],
             !.doc = [documents |-> user.addresses]])
  /\ UNCHANGED <<carts, products, orders, sessions, server, clock>>

getLoggedUserAddresses(r, me) ==
  /\ CanStart(r)
  /\ SetReq(r, [IdleReq EXCEPT
       !.kind = "getAddresses", !.input = [user |-> me], !.pc = "done", !.status = 200,
       !.message = [text |-> "Addresses Fetched Successfully."],
       !.doc = [documents |-> collections["user"][me].addresses]])
  /\ UNCHANGED <<carts, products, orders, sessions, server, clock, collections>>

NextAddress ==
  \/ \E r \in Reqs, me \in LoggedUsers, city \in {"Giza", "Luxor"} : addAddress(r, me, city)
  \/ \E r \in Reqs, me \in LoggedUsers, addressId \in AddressIds : removeAddress(r, me, addressId)
  \/ \E r \in Reqs, me \in LoggedUsers : getLoggedUserAddresses(r, me)

SpecAddress == InitAddress /\ [][NextAddress]_vars

\* ------------------------------------------------------------------------
\* Properties
\* ------------------------------------------------------------------------

\* r takes its first step (its handler starts) in this transition
Starts(r) == reqs[r].pc = "idle" /\ reqs'[r].pc # "idle"

\* sum of the quantities of the first n lines of items that reference product p
RECURSIVE LineSum(_, _, _)
LineSum(items, n, p) ==
  IF n = 0 THEN 0
  ELSE LineSum(items, n - 1, p)
       + (IF items[n].product = p THEN items[n].quantity ELSE 0)

\* C1: of two createCashOrder requests on the same cart identifier at most one
\* creates an order and answers 201 (the other one answers 404)
C1_SecondCashOrderIs404 ==
  \A r1, r2 \in Reqs :
    (/\ r1 # r2
     /\ reqs[r1].kind = "cash" /\ reqs[r2].kind = "cash"
     /\ reqs[r1].cartId = reqs[r2].cartId)
    => /\ ~(reqs[r1].order # 0 /\ reqs[r2].order # 0)
       /\ ~(reqs[r1].status = 201 /\ reqs[r2].status = 201)

\* C2: createCashOrder on a cart identifier that resolves to no cart answers
\* 404 in the step that looks the cart up, writes nothing, and the request
\* takes no further step
C2_CashOrderUnknownCart ==
  [][\A r \in Reqs :
       /\ (Starts(r) /\ reqs'[r].kind = "cash" /\ carts[reqs'[r].cartId] = Null)
          => /\ reqs'[r].status = 404
             /\ reqs'[r].pc = "done"
             /\ reqs'[r].order = 0
             /\ UNCHANGED <<carts, products, orders>>
       /\ (reqs[r].kind = "cash" /\ reqs[r].status = 404) => reqs'[r] = reqs[r]
    ]_vars

C2_Witness ==
  \E r \in Reqs :
    /\ reqs[r].kind = "cash" /\ reqs[r].status = 404 /\ reqs[r].cartId = "c0"
    /\ carts = InitCarts /\ products = InitProducts /\ orders = InitOrders

\* what the checkouts have applied to product p so far: for each checkout the
\* lines its bulk write has executed (all of them once it has answered 201)
RECURSIVE AppliedTo(_, _)
AppliedTo(n, p) ==
  IF n = 0 THEN 0
  ELSE AppliedTo(n - 1, p)
       + (IF reqs[n].kind \in {"cash", "webhook"} /\ reqs[n].cart # Null
          THEN LineSum(reqs[n].cart.cartItems, reqs[n].i, p) ELSE 0)

\* a stored counter as a number, an absent one counting as 0
Count(v) == IF v = Undefined THEN 0 ELSE Val(v)

\* every handler has run to its end
Settled == \A r \in Reqs : reqs[r].pc \in {"idle", "done", "rejected"}

\* C3: after createCashOrder has succeeded, every product's quantity has
\* decreased by exactly the sum of the quantities of the cart lines that
\* reference it and its sold counter has increased by the same amount; a
\* product no cart line references is unchanged.  Stated over the states in
\* which every checkout has run to its end: quantity and sold differ from their
\* initial values by exactly the lines of the checkouts that went through.
C3_StockAndSoldMoveByCartLines ==
  Settled =>
    \A p \in ProductIds :
      /\ Count(products[p].quantity) = Count(InitProducts[p].quantity) - AppliedTo(MaxReqs, p)
      /\ Count(products[p].sold) = Count(InitProducts[p].sold) + AppliedTo(MaxReqs, p)

\* C4: the created order's totalOrderPrice is the cart's discounted total
\* whenever one is stored (0 included), else the pre-discount total
C4_TotalIsStoredDiscountedTotal ==
  \A r \in Reqs :
    (reqs[r].kind = "cash" /\ reqs[r].order # 0)
      => orders[reqs[r].order].totalOrderPrice =
           (IF reqs[r].cart.totalPriceAfterDiscount # Undefined
            THEN Val(reqs[r].cart.totalPriceAfterDiscount)
            ELSE reqs[r].cart.totalCartPrice)

\* C5: once a createCashOrder on cart c has answered 201, every createCashOrder
\* or checkoutSession request on c that starts afterwards answers 404
C5_CartGoneAfterCashOrder ==
  [][\A r2 \in Reqs :
       (/\ Starts(r2)
        /\ reqs'[r2].kind \in {"cash", "session"}
        /\ \E r \in Reqs : /\ reqs[r].kind = "cash" /\ reqs[r].status = 201
                           /\ reqs[r].cartId = reqs'[r2].cartId)
       => reqs'[r2].status = 404 /\ reqs'[r2].pc = "done"
    ]_vars

C5_Witness ==
  \E r, r2 \in Reqs :
    /\ r < r2
    /\ reqs[r].kind = "cash" /\ reqs[r].status = 201
    /\ reqs[r2].kind = "session" /\ reqs[r2].status = 404
    /\ reqs[r2].cartId = reqs[r].cartId

\* C6: an order with isDelivered = true also has isPaid = true
C6_DeliveredImpliesPaid ==
  \A o \in 1..Len(orders) : orders[o].isDelivered => orders[o].isPaid

\* C7: no step deletes an order, and no step resets isPaid or isDelivered of an
\* order once it is true
C7_OrderStatusNeverMovesBack ==
  [][/\ Len(orders') >= Len(orders)
     /\ \A o \in 1..Len(orders) :
          /\ orders[o].isPaid => orders'[o].isPaid
          /\ orders[o].isDelivered => orders'[o].isDelivered
    ]_vars

\* an order was paid, and a delivery that had read it unpaid was saved after
C7_Witness ==
  \E r1, r2 \in Reqs :
    /\ reqs[r1].kind = "pay" /\ reqs[r1].status = 200
    /\ reqs[r2].kind = "deliver" /\ reqs[r2].status = 200
    /\ reqs[r1].id = reqs[r2].id
    /\ ~reqs[r2].orig.isPaid /\ ~reqs[r1].orig.isDelivered
    /\ orders[reqs[r1].id].isPaid /\ orders[reqs[r1].id].isDelivered

\* C8: updateOrderToDelivered does not look at isPaid: on an existing order it
\* always goes on to save, and saving on an order that is not paid answers
\* 200, sets isDelivered and deliveredAt (to the time the handler took, unless
\* the order was read as delivered already) and leaves isPaid false
C8_DeliverWithoutPaidCheck ==
  [][\A r \in Reqs :
       /\ (Starts(r) /\ reqs'[r].kind = "deliver" /\ reqs'[r].id \in 1..Len(orders))
          => reqs'[r].pc = "save" /\ reqs'[r].status = 0
       /\ (/\ reqs[r].kind = "deliver" /\ reqs[r].pc = "save" /\ reqs'[r].pc = "done"
           /\ ~orders[reqs[r].id].isPaid)
          => /\ reqs'[r].status = 200
             /\ orders'[reqs[r].id].isDelivered
             /\ orders'[reqs[r].id].deliveredAt # Undefined
             /\ ~reqs[r].orig.isDelivered
                  => orders'[reqs[r].id].deliveredAt = Num(reqs[r].now)
             /\ ~orders'[reqs[r].id].isPaid
    ]_vars

C8_Witness ==
  \E r \in Reqs :
    /\ reqs[r].kind = "deliver" /\ reqs[r].status = 200
    /\ ~reqs[r].orig.isPaid
    /\ orders[reqs[r].id].isDelivered
    /\ orders[reqs[r].id].deliveredAt # Undefined
    /\ ~orders[reqs[r].id].isPaid

\* C9: saving updateOrderToPaid answers 200 and leaves isPaid true; on an order
\* that is already paid it changes nothing but paidAt and updatedAt
C9_PayTwiceIsIdempotent ==
  [][\A r \in Reqs :
       (reqs[r].kind = "pay" /\ reqs[r].pc = "save" /\ reqs'[r].pc = "done")
       => /\ reqs'[r].status = 200
          /\ orders'[reqs[r].id].isPaid
          /\ orders[reqs[r].id].isPaid =>
               orders'[reqs[r].id] =
                 [orders[reqs[r].id] EXCEPT
                    !.paidAt = orders'[reqs[r].id].paidAt,
                    !.updatedAt = orders'[reqs[r].id].updatedAt]
    ]_vars

\* the same order was paid twice, one call after the other, at different times
C9_Witness ==
  \E r1, r2 \in Reqs :
    /\ r1 # r2
    /\ reqs[r1].kind = "pay" /\ reqs[r1].status = 200
    /\ reqs[r2].kind = "pay" /\ reqs[r2].status = 200
    /\ reqs[r1].id = reqs[r2].id
    /\ reqs[r2].orig.isPaid
    /\ reqs[r2].orig.paidAt # orders[reqs[r2].id].paidAt
    /\ orders[reqs[r2].id].isPaid

\* C10: updateOrderToPaid and updateOrderToDelivered on an identifier that
\* resolves to no order answer 404 in the step that looks the order up, write
\* nothing, and the request takes no further step
C10_UnknownOrderIs404 ==
  [][\A r \in Reqs :
       /\ (Starts(r) /\ reqs'[r].kind \in {"pay", "deliver"}
             /\ reqs'[r].id \notin 1..Len(orders))
          => /\ reqs'[r].status = 404
             /\ reqs'[r].pc = "done"
             /\ UNCHANGED <<carts, products, orders>>
       /\ (reqs[r].kind \in {"pay", "deliver"} /\ reqs[r].status = 404)
          => reqs'[r] = reqs[r]
    ]_vars

C10_Witness ==
  \E r1, r2 \in Reqs :
    /\ reqs[r1].kind = "pay" /\ reqs[r1].status = 404
    /\ reqs[r2].kind = "deliver" /\ reqs[r2].status = 404
    /\ carts = InitCarts /\ products = InitProducts /\ orders = InitOrders

\* the fields of an order that neither status update may touch
Snapshot(o) ==
  <<o.user, o.cartItems, o.shippingAddress, o.totalOrderPrice, o.paymentMethodType,
    o.taxPrice, o.shippingPrice>>

\* C11: a step of updateOrderToPaid changes nothing but isPaid and paidAt of
\* the addressed order, a step of updateOrderToDelivered nothing but isDelivered
\* and deliveredAt (save stamps updatedAt with either): user, cartItems,
\* shippingAddress, totalOrderPrice and paymentMethodType of that order, every
\* other order, every cart and every product stay as they are
C11_StatusUpdateFrame ==
  [][\A r \in Reqs :
       (reqs'[r] # reqs[r] /\ reqs'[r].kind \in {"pay", "deliver"})
       => /\ UNCHANGED <<carts, products>>
          /\ Len(orders') = Len(orders)
          /\ \A o \in 1..Len(orders) :
               /\ o # reqs'[r].id => orders'[o] = orders[o]
               /\ Snapshot(orders'[o]) = Snapshot(orders[o])
               /\ reqs'[r].kind = "pay" =>
                    /\ orders'[o].isDelivered = orders[o].isDelivered
                    /\ orders'[o].deliveredAt = orders[o].deliveredAt
               /\ reqs'[r].kind = "deliver" =>
                    /\ orders'[o].isPaid = orders[o].isPaid
                    /\ orders'[o].paidAt = orders[o].paidAt
    ]_vars

\* an order was marked paid (or delivered) while another order existed
C11_Witness ==
  \E r \in Reqs :
    /\ reqs[r].kind \in {"pay", "deliver"} /\ reqs[r].status = 200
    /\ Len(orders) > 1
    /\ orders[reqs[r].id].updatedAt = reqs[r].now
    /\ \/ orders[reqs[r].id].isPaid /\ orders[reqs[r].id].paidAt = Num(reqs[r].now)
       \/ orders[reqs[r].id].isDelivered /\ orders[reqs[r].id].deliveredAt = Num(reqs[r].now)

\* C12: a webhook request whose signature does not verify is answered 400 in
\* its only step: createCardOrder is not started, no order is created, no cart
\* and no product changes, and the request takes no further step
C12_BadSignatureIs400 ==
  [][\A r \in Reqs :
       /\ (Starts(r) /\ reqs'[r].kind = "webhook" /\ ~reqs'[r].signed)
          => /\ reqs'[r].status = 400
             /\ reqs'[r].pc = "done"
             /\ reqs'[r].order = 0
             /\ UNCHANGED <<carts, products, orders>>
       /\ (reqs[r].kind = "webhook" /\ ~reqs[r].signed) => reqs'[r] = reqs[r]
    ]_vars

C12_Witness ==
  \E r \in Reqs :
    /\ reqs[r].kind = "webhook" /\ ~reqs[r].signed /\ reqs[r].status = 400
    /\ carts = InitCarts /\ products = InitProducts /\ orders = InitOrders

\* a checkout of either kind that ran to its end
Completed(r) ==
  /\ reqs[r].kind \in {"cash", "webhook"}
  /\ reqs[r].pc = "done"
  /\ reqs[r].order # 0

\* the fields of a new order that do not depend on the payment path
PathIndependent(o) ==
  <<o.cartItems, o.shippingAddress, o.taxPrice, o.shippingPrice, o.isDelivered,
    o.deliveredAt>>

\* C13: the card path does to products and carts what createCashOrder does.
\* Every completed checkout, cash or card, has applied every line of the cart
\* it read and has deleted that cart; every product's quantity and sold counter
\* have moved by the applied lines at one and the same rate for both paths; and
\* the orders a cash and a card checkout built from the same cart agree in
\* cartItems and in every field but user, totalOrderPrice, isPaid, paidAt and
\* paymentMethodType, the card order being paid, with paidAt set, by card.
C13_CardPathSameEffectAsCash ==
  /\ \A r \in Reqs :
       Completed(r) =>
         /\ reqs[r].i = Len(reqs[r].cart.cartItems)
         /\ carts[reqs[r].cartId] = Null
         /\ reqs[r].doc.cartItems = reqs[r].cart.cartItems
  /\ \A p \in ProductIds :
       Count(products[p].quantity) = Count(InitProducts[p].quantity) - AppliedTo(MaxReqs, p)
  /\ \E k \in {0, 1} : \A p \in ProductIds :
       Count(products[p].sold) = Count(InitProducts[p].sold) + k * AppliedTo(MaxReqs, p)
  /\ \A r1, r2 \in Reqs :
       (/\ Completed(r1) /\ reqs[r1].kind = "cash"
        /\ Completed(r2) /\ reqs[r2].kind = "webhook"
        /\ reqs[r1].cart = reqs[r2].cart)
       => /\ PathIndependent(reqs[r1].doc) = PathIndependent(reqs[r2].doc)
          /\ reqs[r2].doc.isPaid /\ reqs[r2].doc.paidAt # Undefined
          /\ reqs[r2].doc.paymentMethodType = "card"
          /\ reqs[r2].doc.user = reqs[r2].session.customer_email

\* a cash and a card checkout of cart c1 have both run to their end
C13_Witness ==
  \E r1, r2 \in Reqs :
    /\ Completed(r1) /\ reqs[r1].kind = "cash" /\ reqs[r1].status = 201
    /\ Completed(r2) /\ reqs[r2].kind = "webhook"
    /\ reqs[r1].cartId = "c1" /\ reqs[r2].cartId = "c1"
    /\ reqs[r1].cart = reqs[r2].cart

\* all lines of items that reference product p
AllLines(items, p) == LineSum(items, Len(items), p)

\* C14: checkouts of one cart are not serialized.  Whenever two checkouts of
\* the same cart have both completed, two distinct orders carrying that cart's
\* items exist and every product the cart references has lost at least twice
\* the cart's quantity of it; the witness shows that such an interleaving exists.
C14_SameCartDoubleDecrement ==
  \A r1, r2 \in Reqs :
    (r1 # r2 /\ Completed(r1) /\ Completed(r2) /\ reqs[r1].cartId = reqs[r2].cartId)
    => /\ reqs[r1].order # reqs[r2].order
       /\ orders[reqs[r1].order].cartItems = reqs[r1].cart.cartItems
       /\ orders[reqs[r2].order].cartItems = reqs[r1].cart.cartItems
       /\ \A p \in ProductIds :
            Count(InitProducts[p].quantity) - Count(products[p].quantity)
              >= 2 * AllLines(reqs[r1].cart.cartItems, p)

\* two cash checkouts of cart c1 (productA x2) have both answered 201:
\* two orders, and productA is down by 4
C14_Witness ==
  \E r1, r2 \in Reqs :
    /\ r1 # r2
    /\ reqs[r1].kind = "cash" /\ reqs[r1].status = 201 /\ reqs[r1].cartId = "c1"
    /\ reqs[r2].kind = "cash" /\ reqs[r2].status = 201 /\ reqs[r2].cartId = "c1"
    /\ reqs[r1].order # reqs[r2].order
    /\ Count(products["productA"].quantity) = Count(InitProducts["productA"].quantity) - 4

\* what one unit of an applied line adds to sold when the updates are applied
\* one after the other
SoldRate == IF "sold" \in ProductSchemaPaths THEN 1 ELSE 0

\* two checkouts of different carts that both contain product p have completed
SharedStock(r1, r2, p) ==
  /\ r1 # r2 /\ Completed(r1) /\ Completed(r2)
  /\ reqs[r1].cartId # reqs[r2].cartId
  /\ AllLines(reqs[r1].cart.cartItems, p) > 0
  /\ AllLines(reqs[r2].cart.cartItems, p) > 0

FailedAfterCreate(rq) == rq.pc = "rejected" /\ rq.order # 0

\* C16: a checkout that fails after its order record was created (the bulk
\* stock update or the cart deletion fails) leaves the order record, the stock
\* decrements already applied and the cart as they are at the point of failure,
\* writes nothing afterwards, and its request ends in an error response, not 201
C16_FailedCheckoutKeepsWritesAndEndsInError ==
  [][ \A r \in Reqs :
        /\ (~FailedAfterCreate(reqs[r]) /\ FailedAfterCreate(reqs'[r]))
           => /\ orders' = orders /\ orders[reqs[r].order] = reqs[r].doc
              /\ products' = products
              /\ carts' = carts
              /\ reqs'[r].status >= 400
        /\ FailedAfterCreate(reqs[r]) => reqs'[r] = reqs[r] ]_vars

\* the roles for which each handler may run
RunsOnlyFor(route) ==
  CASE route \in {"pay", "deliver"} -> {"admin", "manager"}
    [] route \in {"cash", "session"} -> {"user"}
    [] route \in {"productCreate", "productUpdate"} -> {"admin", "manager"}
    [] route = "productDelete" -> {"admin"}
    [] OTHER -> {"user", "manager", "admin"}

\* the account of request rq may use the route of rq
Permitted(rq) == rq.user # Anonymous /\ RoleOf[rq.user] \in RunsOnlyFor(rq.kind)

\* C17: on a role-gated route a request without authentication is answered
\* 401 and one whose role is not in the route's set is answered 403, in a step
\* that leaves the stored state unchanged and is the request's last; a handler
\* body takes steps only for a request whose role is in the set of its route
\* (pay and deliver: admin or manager; cash order and checkout session: user;
\* product create and update: admin or manager; product delete: admin)
C17_RoleGate ==
  [][ \A r \in Reqs :
        /\ (reqs[r].pc = "idle" /\ reqs'[r].pc # "idle")
           => IF Permitted(reqs'[r])
              THEN reqs'[r].pc = "authorized" /\ reqs'[r].status = 0
              ELSE /\ reqs'[r].pc = "done"
                   /\ reqs'[r].status = (IF reqs'[r].user = Anonymous THEN 401 ELSE 403)
                   /\ <<carts, products, orders, sessions>>' = <<carts, products, orders, sessions>>
        /\ (reqs[r].pc # "idle" /\ reqs'[r] # reqs[r])
           => Permitted(reqs[r]) /\ reqs'[r].user = reqs[r].user /\ reqs'[r].kind = reqs[r].kind
        /\ (\A q \in Reqs : reqs'[q] = reqs[q] \/ reqs[q].pc = "idle")
           => <<carts, products, orders, sessions>>' = <<carts, products, orders, sessions>> ]_vars

\* a manager's product delete was answered 403 and the products are all there
C17_Witness ==
  \E r \in Reqs :
    /\ reqs[r].kind = "productDelete" /\ reqs[r].user = "m1"
    /\ reqs[r].pc = "done" /\ reqs[r].status = 403
    /\ products = InitProducts

\* C18: GET /api/v1/orders/{id} never returns to a requester with role user
\* the data of an order whose user is somebody else
C18_UserReadsOnlyOwnOrder ==
  \A r \in Reqs :
    (reqs[r].kind = "getOrder" /\ reqs[r].pc = "done" /\ reqs[r].status = 200
       /\ RoleOf[reqs[r].user] = "user")
    => reqs[r].doc.user = reqs[r].user

C20_UnknownIdIs404WithId ==
  \A r \in Reqs :
    (reqs[r].kind \in DOMAIN Stored /\ reqs[r].pc = "done"
       /\ reqs[r].id \notin Stored[reqs[r].kind])
    => /\ reqs[r].status = 404
       /\ reqs[r].message # Null
       /\ reqs[r].message.id = reqs[r].id

MessagesOf(errors, field) ==
  LET of == SelectSeq(errors, LAMBDA x : (IF x.path # "" THEN x.path ELSE x.param) = field)
  IN [i \in 1..Len(of) |-> of[i].msg]

C23_UnknownAddressIs404 ==
  [][ \A r \in Reqs :
        (reqs[r].pc = "idle" /\ reqs'[r].kind = "removeAddress"
           /\ LET list == collections["user"][reqs'[r].input.user].addresses
              IN \A k \in 1..Len(list) : list[k]._id # reqs'[r].id)
        => /\ reqs'[r].status = 404
           /\ collections' = collections ]_vars

\* C24: a product's stock quantity is never negative, whatever checkouts run
C24_StockNeverNegative ==
  \A p \in ProductIds : Count(products[p].quantity) >= 0

\* the quantity of product p over all cartItems lines of the orders 1..k
RECURSIVE Ordered(_, _)
Ordered(k, p) ==
  IF k = 0 THEN 0 ELSE Ordered(k - 1, p) + AllLines(orders[k].cartItems, p)

\* C25: once every checkout has run to completion, for each product the
\* decrease of quantity equals the increase of sold equals the quantity of the
\* product over all lines of the orders (those created since the initial state,
\* to which the initial counters belong)
C25_StockAccountsForOrders ==
  Settled =>
    \A p \in ProductIds :
      LET ordered == Ordered(Len(orders), p) - Ordered(Len(InitOrders), p)
      IN /\ Count(InitProducts[p].quantity) - Count(products[p].quantity) = ordered
         /\ Count(products[p].sold) - Count(InitProducts[p].sold) = ordered

\* C26: the totalOrderPrice of every order the card path creates is the total
\* (the discounted one if the cart has one, else the pre-discount one) of the
\* cart whose items the order holds, whatever cart item operations ran between
\* checkoutSession and the webhook
C26_CardTotalMatchesSnapshot ==
  \A r \in Reqs :
    (reqs[r].kind = "webhook" /\ reqs[r].order # 0)
    => LET cart == reqs[r].cart
           order == orders[reqs[r].order]
       IN /\ order.cartItems = cart.cartItems
          /\ order.totalOrderPrice =
               (IF cart.totalPriceAfterDiscount # Undefined
                THEN Val(cart.totalPriceAfterDiscount) ELSE cart.totalCartPrice)

\* the request is a signed checkout.session.completed event whose order is
\* being created
CardEvent(rq) == rq.kind = "webhook" /\ rq.signed /\ rq.session # Null

\* C27: a signed checkout.session.completed event whose cart or customer
\* e-mail does not resolve creates no order, changes no product and deletes no
\* cart; it was answered 200 when it arrived, its failure closes the server,
\* which then only exits, and the event does nothing more
C27_UnresolvedEventIsDropped ==
  [][ \A r \in Reqs :
        /\ (Starts(r) /\ CardEvent(reqs'[r])) => reqs'[r].status = 200
        /\ (CardEvent(reqs[r]) /\ reqs[r].pc = "cardFindUser" /\ reqs'[r] # reqs[r]
              /\ (reqs[r].cart = Null \/ reqs[r].session.customer_email \notin Users))
           => /\ reqs'[r].pc = "rejected"
              /\ reqs'[r].order = 0
              /\ reqs'[r].status = 200
              /\ UNCHANGED <<carts, products, orders>>
              /\ server' = "closing"
        /\ (CardEvent(reqs[r]) /\ reqs[r].pc = "rejected")
           => reqs'[r] = reqs[r] /\ server' \in {"closing", "exited"} ]_vars

\* the event of a customer whose account is gone was answered 200, created no
\* order, and the process has exited
C27_Witness ==
  \E r \in Reqs :
    /\ CardEvent(reqs[r]) /\ reqs[r].session.customer_email = "u0"
    /\ reqs[r].cart # Null
    /\ reqs[r].pc = "rejected" /\ reqs[r].status = 200
    /\ server = "exited"
    /\ carts = InitCarts /\ products = InitProducts /\ orders = InitOrders

\* C28: a cash order belongs to the requester, whoever owns the cart: once the
\* cart is found the request is never refused, and when it has completed it
\* was answered 201, the stock of the cart's products is down by the cart's
\* lines and the cart is gone
C28_CashOrderGoesToRequester ==
  \A r \in Reqs :
    (reqs[r].kind = "cash" /\ reqs[r].cart # Null)
    => /\ reqs[r].status \in {0, 201}
       /\ reqs[r].order # 0 => orders[reqs[r].order].user = reqs[r].user
       /\ reqs[r].pc = "done"
          => /\ reqs[r].status = 201 /\ reqs[r].order # 0
             /\ carts[reqs[r].cartId] = Null
             /\ \A p \in ProductIds :
                  Val(products[p].quantity)
                    <= Val(InitProducts[p].quantity) - AllLines(reqs[r].cart.cartItems, p)

\* a requester has completed a cash order on another user's cart
C28_Witness ==
  \E r \in Reqs :
    /\ reqs[r].kind = "cash" /\ reqs[r].pc = "done" /\ reqs[r].status = 201
    /\ reqs[r].cart # Null /\ reqs[r].cart.user # reqs[r].user
    /\ orders[reqs[r].order].user = reqs[r].user
    /\ carts[reqs[r].cartId] = Null
    /\ \E p \in ProductIds : Val(products[p].quantity) < Val(InitProducts[p].quantity)

\* every card order in the collection is paid and carries its payment time
CardOrdersPaid(os) ==
  \A k \in 1..Len(os) :
    os[k].paymentMethodType = "card" => os[k].isPaid /\ os[k].paidAt # Undefined

\* C29: in every state every card order is paid with paidAt set, whatever is
\* done to it afterwards, and the order that createCashOrder adds to the
\* collection is a cash order, not paid and not delivered
C29_CardPaidCashUnpaid ==
  [][ /\ CardOrdersPaid(orders) /\ CardOrdersPaid(orders')
      /\ \A r \in Reqs :
           (reqs[r].kind = "cash" /\ reqs[r].pc = "createOrder" /\ reqs'[r].pc # "createOrder")
           => /\ Len(orders') = Len(orders) + 1
              /\ reqs'[r].order = Len(orders')
              /\ orders'[Len(orders')].paymentMethodType = "cash"
              /\ ~orders'[Len(orders')].isPaid
              /\ ~orders'[Len(orders')].isDelivered ]_vars

\* a card order was created paid, and a later updateOrderToPaid on it has
\* completed
C29_Witness ==
  \E r \in Reqs :
    /\ reqs[r].kind = "pay" /\ reqs[r].pc = "done" /\ reqs[r].status = 200
    /\ reqs[r].id \in 1..Len(orders)
    /\ orders[reqs[r].id].paymentMethodType = "card"
    /\ orders[reqs[r].id].isPaid
    /\ orders[reqs[r].id].paidAt # Undefined

\* the event's cart and its customer's account exist
Resolvable(rq) ==
  /\ CardEvent(rq)
  /\ carts[rq.cartId] # Null
  /\ rq.session.customer_email \in Users

\* the order of the event's cart is there, paid by card, the stock of its
\* products is down by its lines and the cart is deleted
CardOrderPlaced(rq) ==
  /\ CardEvent(rq)
  /\ InitCarts[rq.cartId] # Null
  /\ \E k \in 1..Len(orders) :
       /\ orders[k].cartItems = InitCarts[rq.cartId].cartItems
       /\ orders[k].isPaid
       /\ orders[k].paymentMethodType = "card"
  /\ \A p \in ProductIds :
       Val(products[p].quantity)
         <= Val(InitProducts[p].quantity) - AllLines(InitCarts[rq.cartId].cartItems, p)
  /\ carts[rq.cartId] = Null

\* C30: every signed checkout.session.completed event that arrives while its
\* cart and its customer exist is eventually followed by a state where the
\* cart's order exists paid by card, the stock is decremented and the cart is
\* deleted
C30_ResolvableEventPlacesOrder ==
  \A r \in Reqs :
    (reqs[r].pc = "cardFindCart" /\ Resolvable(reqs[r])) ~> CardOrderPlaced(reqs[r])

====
